---- MODULE Spec2Model ----
(***************************************************************************)
(* TransactionService (src/server/application/TransactionService.js): six  *)
(* promise-returning operations over the `transactions` table, through a   *)
(* record mapper (save / fetch / load / destroy) and a query builder.      *)
(*                                                                         *)
(* The store is a set of rows.  Every query the service sends is one       *)
(* atomic step of the store; getTransaction and getTransactions send a     *)
(* fetch and, in the promise's continuation, a relation load, so they are  *)
(* two steps between which other callers' operations may run.              *)
(***************************************************************************)
EXTENDS Integers, FiniteSets, TLC

\* Bound: the store's id sequence stops handing out ids after MaxId.
MaxId == 2

\* JavaScript `undefined` (an absent argument or an absent `id` property).
Undefined == -1
\* SQL NULL (the columns of the right side of an outer join with no match).
NULL == -2

\* The two tables the service reads but never writes.
Accounts == {[id |-> 1, name |-> "Checking"], [id |-> 2, name |-> "Savings"]}
Categories == {[id |-> 1, name |-> "Auto"], [id |-> 2, name |-> "Salary"]}

\* Field values callers pass: category 1 has rows on both dates and in both
\* accounts, account 2 has rows in both categories, the amounts differ in
\* sign, and the first and the last differ in every field.
TxnFields ==
    { [txn_date |-> 1, amount |-> -3, account_id |-> 1, category_id |-> 1],
      [txn_date |-> 2, amount |-> 5,  account_id |-> 2, category_id |-> 1],
      [txn_date |-> 2, amount |-> 7,  account_id |-> 2, category_id |-> 2] }

Ids == 1..MaxId
\* Dates a caller passes as startDate or endDate: those of the rows and a
\* later one.
Dates == {f.txn_date : f \in TxnFields} \cup {3}

WithId(f, i) ==
    [id |-> i, txn_date |-> f.txn_date, amount |-> f.amount,
     account_id |-> f.account_id, category_id |-> f.category_id]

\* transactionData: full fields, `id` optional.
TxnData == {WithId(f, i) : f \in TxnFields, i \in Ids \cup {Undefined}}

VARIABLES
    store,      \* rows of table `transactions`
    nextId,     \* the store's id sequence: the id the next insert gets
    pending,    \* the read whose fetch has fulfilled and whose load has not run
    deleted,    \* history (SpecDeleteHistory): ids a deleteTransaction fulfilled for
    removed,    \* history (SpecDeleteHistory): ids of rows a deleteTransaction removed
    last        \* history: the call that settled last, since the pending read began

vars == <<store, nextId, pending, deleted, removed, last>>

----------------------------------------------------------------------------
\* Promise outcomes.
Fulfilled(v) == [status |-> "fulfilled", error |-> "", value |-> v]
Rejected(e) == [status |-> "rejected", error |-> e, value |-> NULL]

\* `if (x)` on an optional number or Date.
Truthy(x) == x /= Undefined /\ x /= 0

RowIds(s) == {r.id : r \in s}
RowOf(s, i) == CHOOSE r \in s : r.id = i

RECURSIVE SumAmount(_)
SumAmount(S) ==
    IF S = {} THEN 0
    ELSE LET x == CHOOSE y \in S : TRUE IN x.amount + SumAmount(S \ {x})

----------------------------------------------------------------------------
\* save()

isNew(data) == data.id = Undefined

\* Mutant of insert: the id sequence is not advanced.
insertNoAdvance(s, n, data) ==
    LET row == WithId(data, n)
    IN  [store |-> s \cup {row}, nextId |-> n, result |-> Fulfilled(row)]

insert(s, n, data) ==
    LET row == WithId(data, n)
    IN  [store |-> s \cup {row}, nextId |-> n + 1, result |-> Fulfilled(row)]

\* Mutant of update: only the amount column is written.
updateAmountOnly(s, n, data) ==
    IF data.id \in RowIds(s)
    THEN [store |-> {IF r.id = data.id
                     THEN [r EXCEPT !.amount = data.amount] ELSE r : r \in s},
          nextId |-> n, result |-> Fulfilled(data)]
    ELSE [store |-> s, nextId |-> n, result |-> Rejected("NoRowsUpdated")]

update(s, n, data) ==
    IF data.id \in RowIds(s)
    THEN [store |-> {IF r.id = data.id THEN data ELSE r : r \in s},
          nextId |-> n, result |-> Fulfilled(data)]
    ELSE [store |-> s, nextId |-> n, result |-> Rejected("NoRowsUpdated")]

saveTransaction(s, n, data) ==
    IF isNew(data) THEN insert(s, n, data) ELSE update(s, n, data)

\* Mutant of createTransaction: the entry point itself forces an insert.
createTransactionInsertOnly(s, n, data) ==
    saveTransaction(s, n, WithId(data, Undefined))

createTransaction(s, n, data) == saveTransaction(s, n, data)

updateTransaction(s, n, data) == saveTransaction(s, n, data)

----------------------------------------------------------------------------
\* fetch({require: true}), fetchAll(), load(['account', 'category'])

\* Mutant of fetch: `require` is not set, the continuation runs on null.
fetchNotRequired(s, id) ==
    IF id \in RowIds(s) THEN Fulfilled(RowOf(s, id)) ELSE Rejected("TypeError")

fetch(s, id) ==
    IF id \in RowIds(s) THEN Fulfilled(RowOf(s, id)) ELSE Rejected("NotFound")

filterOptions(accountId) == IF Truthy(accountId) THEN accountId ELSE Undefined

where(s, fo) == IF fo = Undefined THEN s ELSE {r \in s : r.account_id = fo}

fetchAll(s, accountId) == where(s, filterOptions(accountId))

\* A belongsTo relation: the row of `table` the foreign key names, or an
\* empty model when there is none.
EmptyModel == [id |-> NULL, name |-> ""]

belongsTo(table, fk) ==
    IF \E x \in table : x.id = fk
    THEN CHOOSE x \in table : x.id = fk
    ELSE EmptyModel

\* Mutant of loadModel: the relations are resolved from the row as it is in
\* the store when the load runs, not from the fetched model.
loadModelRefetched(m) ==
    LET now == IF m.id \in RowIds(store) THEN RowOf(store, m.id) ELSE m
    IN  [id |-> m.id, txn_date |-> m.txn_date, amount |-> m.amount,
         account_id |-> m.account_id, category_id |-> m.category_id,
         account |-> belongsTo(Accounts, now.account_id),
         category |-> belongsTo(Categories, now.category_id)]

loadModel(m) ==
    [id |-> m.id, txn_date |-> m.txn_date, amount |-> m.amount,
     account_id |-> m.account_id, category_id |-> m.category_id,
     account |-> belongsTo(Accounts, m.account_id),
     category |-> belongsTo(Categories, m.category_id)]

load(ms) == {loadModel(m) : m \in ms}

----------------------------------------------------------------------------
\* The aggregate query.

\* Every row of the left table, with each right row it matches or, when it
\* matches none, with nulls.
leftOuterJoin(ts, cs) ==
    {[t |-> p[1], c |-> p[2]] :
        p \in {q \in ts \X cs : q[2].id = q[1].category_id}}
        \cup {[t |-> t, c |-> [id |-> NULL, name |-> ""]] :
                 t \in {y \in ts : \A x \in cs : x.id /= y.category_id}}

\* Mutant of whereBetween: the bounds are exclusive.
whereBetweenExclusive(J, lo, hi) ==
    {j \in J : lo < j.t.txn_date /\ j.t.txn_date < hi}

whereBetween(J, lo, hi) == {j \in J : lo <= j.t.txn_date /\ j.t.txn_date <= hi}

\* Mutant of groupBy: the grouping key is the transaction id.
groupByTransaction(J) ==
    {[cat_id |-> j.c.id, cat_name |-> j.c.name, amount |-> j.t.amount] : j \in J}

groupBy(J) ==
    {[cat_id |-> k.id, cat_name |-> k.name,
      amount |-> SumAmount({j.t : j \in {x \in J : x.c.id = k.id}})]
        : k \in {j.c : j \in J}}

\* Mutant of getTransactionsByCategory: the filter is added when either date
\* is given, an absent bound being open.
getTransactionsByCategoryEither(s, startDate, endDate) ==
    LET qb == leftOuterJoin(s, Categories)
        qf == IF Truthy(startDate) \/ Truthy(endDate)
              THEN {j \in qb :
                      /\ Truthy(startDate) => startDate <= j.t.txn_date
                      /\ Truthy(endDate) => j.t.txn_date <= endDate}
              ELSE qb
    IN  groupBy(qf)

getTransactionsByCategory(s, startDate, endDate) ==
    LET qb == leftOuterJoin(s, Categories)
        qf == IF Truthy(startDate) /\ Truthy(endDate)
              THEN whereBetween(qb, startDate, endDate)
              ELSE qb
    IN  groupBy(qf)

----------------------------------------------------------------------------
\* destroy()

\* Mutant of deleteTransaction: no row is removed.
deleteTransactionNoop(s, id) == s

deleteTransaction(s, id) == {r \in s : r.id /= id}

----------------------------------------------------------------------------
NoCall == [op |-> "none"]

Call(op, arg, before, next, result, ad, ar) ==
    [op |-> op, arg |-> arg, before |-> before, next |-> next,
     result |-> result, afterDelete |-> ad, afterRemove |-> ar]

Init ==
    /\ store = {}
    /\ nextId = 1
    /\ pending = NoCall
    /\ deleted = {}
    /\ removed = {}
    /\ last = NoCall

CreateTransaction(data) ==
    /\ isNew(data) => nextId <= MaxId
    /\ LET r == createTransaction(store, nextId, data)
       IN  /\ store' = r.store
           /\ nextId' = r.nextId
           /\ last' = Call("createTransaction", data, store, nextId, r.result,
                           FALSE, FALSE)
    /\ UNCHANGED <<pending, deleted, removed>>

UpdateTransaction(data) ==
    /\ isNew(data) => nextId <= MaxId
    /\ LET r == updateTransaction(store, nextId, data)
       IN  /\ store' = r.store
           /\ nextId' = r.nextId
           /\ last' = Call("updateTransaction", data, store, nextId, r.result,
                           FALSE, FALSE)
    /\ UNCHANGED <<pending, deleted, removed>>

DeleteTransactionCall(id) ==
    /\ store' = deleteTransaction(store, id)
    /\ last' = Call("deleteTransaction", id, store, nextId, Fulfilled(NULL),
                    FALSE, FALSE)
    /\ UNCHANGED <<nextId, pending>>

DeleteTransaction(id) ==
    /\ DeleteTransactionCall(id)
    /\ UNCHANGED <<deleted, removed>>

\* The same call, with the history of deletes recorded.
DeleteTransactionRecorded(id) ==
    /\ DeleteTransactionCall(id)
    /\ deleted' = deleted \cup {id}
    /\ removed' = IF id \in RowIds(store) THEN removed \cup {id} ELSE removed

GetTransactionFetch(id) ==
    /\ pending = NoCall
    /\ LET f == fetch(store, id)
       IN  IF f.status = "rejected"
           THEN /\ last' = Call("getTransaction", id, store, nextId, f,
                                id \in deleted, id \in removed)
                /\ UNCHANGED pending
           ELSE /\ pending' = [op |-> "getTransaction", arg |-> id,
                               fetched |-> {f.value}, before |-> store,
                               afterDelete |-> id \in deleted,
                               afterRemove |-> id \in removed]
                /\ last' = NoCall
    /\ UNCHANGED <<store, nextId, deleted, removed>>

GetTransactionLoad ==
    /\ pending.op = "getTransaction"
    /\ last' = Call("getTransaction", pending.arg, pending.before, nextId,
                    Fulfilled(CHOOSE m \in load(pending.fetched) : TRUE),
                    pending.afterDelete, pending.afterRemove)
    /\ pending' = NoCall
    /\ UNCHANGED <<store, nextId, deleted, removed>>

GetTransactionsFetch(accountId) ==
    /\ pending = NoCall
    /\ pending' = [op |-> "getTransactions", arg |-> accountId,
                   fetched |-> fetchAll(store, accountId), before |-> store,
                   afterDelete |-> FALSE, afterRemove |-> FALSE]
    /\ last' = NoCall
    /\ UNCHANGED <<store, nextId, deleted, removed>>

GetTransactionsLoad ==
    /\ pending.op = "getTransactions"
    /\ last' = Call("getTransactions", pending.arg, pending.before, nextId,
                    Fulfilled(load(pending.fetched)), FALSE, FALSE)
    /\ pending' = NoCall
    /\ UNCHANGED <<store, nextId, deleted, removed>>

GetTransactionsByCategory(startDate, endDate) ==
    /\ last' = Call("getTransactionsByCategory", <<startDate, endDate>>, store,
                    nextId,
                    Fulfilled(getTransactionsByCategory(store, startDate, endDate)),
                    FALSE, FALSE)
    /\ UNCHANGED <<store, nextId, pending, deleted, removed>>

Next ==
    \/ \E data \in TxnData : CreateTransaction(data)
    \/ \E data \in TxnData : UpdateTransaction(data)
    \/ \E id \in Ids : DeleteTransaction(id)
    \/ \E id \in Ids : GetTransactionFetch(id)
    \/ GetTransactionLoad
    \/ \E accountId \in {Undefined, 0} \cup {a.id : a \in Accounts} :
          GetTransactionsFetch(accountId)
    \/ GetTransactionsLoad
    \/ \E startDate \in Dates \cup {Undefined}, endDate \in Dates \cup {Undefined} :
          GetTransactionsByCategory(startDate, endDate)

Spec == Init /\ [][Next]_vars

\* The writers and getTransaction, with the history of deletes recorded.
NextDeleteHistory ==
    \/ \E data \in TxnData : CreateTransaction(data)
    \/ \E data \in TxnData : UpdateTransaction(data)
    \/ \E id \in Ids : DeleteTransactionRecorded(id)
    \/ \E id \in Ids : GetTransactionFetch(id)
    \/ GetTransactionLoad

SpecDeleteHistory == Init /\ [][NextDeleteHistory]_vars

----------------------------------------------------------------------------
\* Vocabulary of the properties, stated on the tables and not on the
\* operators above.

Fields(m) == WithId(m, m.id)
Others(s, id) == {r \in s : r.id /= id}

\* The transactions a call getTransactionsByCategory(arg[1], arg[2]) is to
\* aggregate: those dated within the inclusive range when both dates are given.
InRange(s, arg) ==
    IF arg[1] /= Undefined /\ arg[2] /= Undefined
    THEN {t \in s : arg[1] <= t.txn_date /\ t.txn_date <= arg[2]}
    ELSE s

OfCategory(s, c) == {t \in s : t.category_id = c}

\* A row with the account and the category it refers to.
Attached(r) ==
    [id |-> r.id, txn_date |-> r.txn_date, amount |-> r.amount,
     account_id |-> r.account_id, category_id |-> r.category_id,
     account |-> CHOOSE a \in Accounts : a.id = r.account_id,
     category |-> CHOOSE c \in Categories : c.id = r.category_id]

ExactlyOneDate(arg) == (arg[1] = Undefined) /= (arg[2] = Undefined)

----------------------------------------------------------------------------
\* C1: createTransaction(data) with no id fulfils with a record whose id is a
\* positive integer no row had before the call and whose other fields equal
\* the input; the store then holds its former rows plus that one row.
C1_CreateInsertsFreshRow ==
    (last.op = "createTransaction" /\ last.arg.id = Undefined) =>
        /\ last.result.status = "fulfilled"
        /\ last.result.value.id > 0
        /\ last.result.value.id \notin RowIds(last.before)
        /\ WithId(last.result.value, Undefined) = last.arg
        /\ store = last.before \cup {last.result.value}
        /\ Cardinality(store) = Cardinality(last.before) + 1

\* C1 witness: an insert into a store that already holds a row.
C1_Witness ==
    /\ last.op = "createTransaction"
    /\ last.arg.id = Undefined
    /\ last.before /= {}
    /\ last.result.status = "fulfilled"

\* C2: updateTransaction(data) with the id of an existing row fulfils with the
\* input; the row of that id then holds exactly the input fields, the number
\* of rows is unchanged and every other row is unchanged.
C2_UpdateReplacesRow ==
    (last.op = "updateTransaction" /\ last.arg.id \in RowIds(last.before)) =>
        /\ last.result = Fulfilled(last.arg)
        /\ {r \in store : r.id = last.arg.id} = {last.arg}
        /\ Cardinality(store) = Cardinality(last.before)
        /\ Others(store, last.arg.id) = Others(last.before, last.arg.id)

\* C2 witness: an update that changes every field of one of two rows.
C2_Witness ==
    /\ last.op = "updateTransaction"
    /\ last.arg.id \in RowIds(last.before)
    /\ Cardinality(last.before) = 2
    /\ LET old == RowOf(last.before, last.arg.id)
       IN  /\ old.txn_date /= last.arg.txn_date
           /\ old.amount /= last.arg.amount
           /\ old.account_id /= last.arg.account_id
           /\ old.category_id /= last.arg.category_id

\* C3: getTransaction(id) rejects with not-found when no row has that id, the
\* store being unchanged by the call; when the row exists it fulfils with
\* that row, its account and its category attached and not null.
C3_GetRequiresRow ==
    (last.op = "getTransaction") =>
        IF last.arg \notin RowIds(last.before)
        THEN /\ last.result = Rejected("NotFound")
             /\ store = last.before
        ELSE /\ last.result.status = "fulfilled"
             /\ Fields(last.result.value) = RowOf(last.before, last.arg)
             /\ last.result.value.account \in Accounts
             /\ last.result.value.account.id = last.result.value.account_id
             /\ last.result.value.category \in Categories
             /\ last.result.value.category.id = last.result.value.category_id

\* C3 witness: a not-found rejection from a store that holds another row.
C3_Witness ==
    /\ last.op = "getTransaction"
    /\ last.result.status = "rejected"
    /\ last.before /= {}

\* C4: getTransactions() returns all rows, and getTransactions(accountId), for
\* every integer accountId including 0, returns exactly the rows whose
\* account_id equals accountId, a subset of the former.
C4_FilterByAccount ==
    (last.op = "getTransactions") =>
        LET rows == {Fields(m) : m \in last.result.value}
        IN  /\ last.arg = Undefined => rows = last.before
            /\ last.arg /= Undefined =>
                  rows = {r \in last.before : r.account_id = last.arg}
            /\ rows \subseteq last.before

\* C5 as stated, read on a table that holds transactions:
\* getTransactionsByCategory returns exactly one row for each category of the
\* categories table, also for one with no matching transaction, and never two
\* rows with the same category id.
C5_OneRowPerCategoryOfTable ==
    (last.op = "getTransactionsByCategory" /\ last.before /= {}) =>
        \A c \in Categories :
            Cardinality({x \in last.result.value : x.cat_id = c.id}) = 1

\* C5 as amended: getTransactionsByCategory returns exactly one row for each
\* category that has a transaction among those aggregated, never two rows with
\* the same category id, and no row for a category with no such transaction.
C5_OneRowPerCategoryOfTransactions ==
    (last.op = "getTransactionsByCategory") =>
        LET M == InRange(last.before, last.arg)
        IN  /\ \A c \in Categories :
                 Cardinality({x \in last.result.value : x.cat_id = c.id})
                     = IF OfCategory(M, c.id) = {} THEN 0 ELSE 1
            /\ \A x \in last.result.value : \E c \in Categories :
                 x.cat_id = c.id /\ x.cat_name = c.name

\* C5 witness: a result with a row for one category and none for the other,
\* the first aggregating two transactions.
C5_Witness ==
    /\ last.op = "getTransactionsByCategory"
    /\ Cardinality(last.result.value) = 1
    /\ Cardinality(InRange(last.before, last.arg)) = 2

\* C6: with both dates given, each returned row's amount is the sum of amount
\* over the transactions of its category dated within [start, end], the end
\* points included; with both omitted, the sum over all of its category.
C6_AmountIsSumInRange ==
    (last.op = "getTransactionsByCategory" /\ ~ExactlyOneDate(last.arg)) =>
        \A x \in last.result.value :
            x.amount = SumAmount(OfCategory(InRange(last.before, last.arg), x.cat_id))

\* C6 witness: a row that sums a transaction dated exactly start and one dated
\* exactly end.
C6_Witness ==
    /\ last.op = "getTransactionsByCategory"
    /\ last.arg = <<1, 2>>
    /\ \E x \in last.result.value :
          /\ \E t \in OfCategory(last.before, x.cat_id) : t.txn_date = 1
          /\ \E t \in OfCategory(last.before, x.cat_id) : t.txn_date = 2
          /\ x.amount = 2

\* C7 as stated: a getTransaction(id) issued after a deleteTransaction(id) has
\* fulfilled always rejects with not-found, whatever other callers do; and
\* deleteTransaction(id) removes only the row with that id.
C7_GetAfterDeleteRejects ==
    /\ (last.op = "getTransaction" /\ last.afterDelete) =>
           last.result = Rejected("NotFound")
    /\ (pending.op = "getTransaction") => ~pending.afterDelete
    /\ (last.op = "deleteTransaction") =>
           store = Others(last.before, last.arg)

\* C7 as amended: a getTransaction(id) issued after a deleteTransaction(id)
\* that removed the row with that id always rejects with not-found, whatever
\* other callers do; and deleteTransaction(id) removes only the row with that id.
C7_GetAfterRemovalRejects ==
    /\ (last.op = "getTransaction" /\ last.afterRemove) =>
           last.result = Rejected("NotFound")
    /\ (pending.op = "getTransaction") => ~pending.afterRemove
    /\ (last.op = "deleteTransaction") =>
           store = Others(last.before, last.arg)
    /\ \A id \in removed : id \notin RowIds(store)

\* C7 witness: a rejected getTransaction(id) issued after the row was removed
\* and after another caller has created a row since.
C7_Witness ==
    /\ last.op = "getTransaction"
    /\ last.afterRemove
    /\ last.result.status = "rejected"
    /\ \E r \in store : r.id > last.arg

\* C8: the result of getTransaction and of getTransactions, rows with their
\* attached account and category, is what one read of the store as it was at
\* the fetch gives, whatever updates and deletes ran before the load.
C8_ReadOfOneState ==
    /\ (last.op = "getTransaction" /\ last.result.status = "fulfilled") =>
           /\ last.arg \in RowIds(last.before)
           /\ last.result.value = Attached(RowOf(last.before, last.arg))
    /\ (last.op = "getTransactions") =>
           /\ last.result.status = "fulfilled"
           /\ last.result.value =
                 {Attached(r) : r \in fetchAll(last.before, last.arg)}

\* C8 witness: a getTransaction that fulfils after the row it fetched was
\* given another category.
C8_Witness ==
    /\ last.op = "getTransaction"
    /\ last.result.status = "fulfilled"
    /\ last.arg \in RowIds(store)
    /\ RowOf(store, last.arg).category_id /= last.result.value.category_id

\* C9: createTransaction(data) and updateTransaction(data) give the same
\* result and the same store; with the id of an existing row either replaces
\* that row and adds none, with no id either inserts a new row.
C9_EntryPointsAgree ==
    (last.op \in {"createTransaction", "updateTransaction"}) =>
        LET other == IF last.op = "createTransaction"
                     THEN updateTransaction(last.before, last.next, last.arg)
                     ELSE createTransaction(last.before, last.next, last.arg)
        IN  /\ other.store = store
            /\ other.nextId = nextId
            /\ other.result = last.result
            /\ last.arg.id \in RowIds(last.before) =>
                  /\ Cardinality(store) = Cardinality(last.before)
                  /\ last.arg \in store
                  /\ Others(store, last.arg.id) = Others(last.before, last.arg.id)
            /\ last.arg.id = Undefined =>
                  /\ Cardinality(store) = Cardinality(last.before) + 1
                  /\ last.before \subseteq store

\* C9 witness: createTransaction called with the id of an existing row, which
\* it replaces.
C9_Witness ==
    /\ last.op = "createTransaction"
    /\ last.arg.id \in RowIds(last.before)
    /\ last.arg \notin last.before
    /\ last.arg \in store

\* C10: with exactly one of startDate and endDate given, no filter is applied
\* and no error raised: the result is that of the call with neither date.
C10_OneDateIsIgnored ==
    (last.op = "getTransactionsByCategory" /\ ExactlyOneDate(last.arg)) =>
        /\ last.result.status = "fulfilled"
        /\ \A c \in Categories :
             {x.amount : x \in {y \in last.result.value : y.cat_id = c.id}}
                 = IF OfCategory(last.before, c.id) = {} THEN {}
                   ELSE {SumAmount(OfCategory(last.before, c.id))}
        /\ last.result.value =
             getTransactionsByCategory(last.before, Undefined, Undefined)

\* C10 witness: only startDate given, with a transaction dated before it in
\* the result's sums.
C10_Witness ==
    /\ last.op = "getTransactionsByCategory"
    /\ last.arg = <<2, Undefined>>
    /\ \E t \in last.before : t.txn_date = 1
    /\ \E t \in last.before : t.txn_date = 2

====
